---- MODULE Spec2Model ----
\* A model of the tree-walking evaluator of monkey-lang-rust
\* (src/src/evaluator/mod.rs): the Object and AST values, the chained
\* Environment, the functions eval, eval_stmts, apply_function, ... as
\* recursive operators, and eval_program's statement loop as a state machine.
\* With it: the builtin functions (src/src/object/builtin.rs) applied to
\* cells of a heap, the precedence-climbing parser over the precedence table
\* of src/src/parser/ast.rs, and the integer and complex infix functions on
\* operands at the limits of the integer width.
EXTENDS Integers, Sequences, FiniteSets, TLC

VARIABLES
    stmts,    \* eval_program's input: the program's statements
    pc,       \* the position of eval_program's `for statement in stmts` loop
    result,   \* eval_program's local `result`
    output,   \* what eval_program returned: Pending until it returns
    envs,     \* the environment layers; layer RootEnv is eval_program's `env`
    trace,    \* the nodes eval was called on, in call order (history)
    tokens,   \* the parser's input: the token stream of the source text
    gc,       \* the GCBox cells the builtins work on: cell h holds gc[h]
    names,    \* the names bound to cells of gc
    applied,  \* the last direct application of a function: its arguments and outcome
    overflow_checks  \* the build profile: TRUE when arithmetic overflow panics

vars == <<stmts, pc, result, output, envs, trace,
          tokens, gc, names, applied, overflow_checks>>

\* What eval_program's loop never writes.
outside == <<tokens, gc, names, applied, overflow_checks>>

-----------------------------------------------------------------------------
\* Values are records led by a tag: `type` for an Object, `kind` for an AST
\* node and for a result, `error` for an error. The values without fields:

NULL == [type |-> "Null"]
DeclareVariable == [type |-> "DeclareVariable"]
Pending == [kind |-> "Pending"]
EvalPowErr == [error |-> "EvalPowErr"]

-----------------------------------------------------------------------------
\* Bounds of the model.

\* The deepest chain of nested user-function calls that is followed.
MaxCallDepth == 3
\* The deepest nesting of if-blocks in the generated return programs.
MaxNest == 2
\* The width in bits of the model's i64, and of the model's u32.
IntBits == 12
ExpBits == 4

-----------------------------------------------------------------------------
\* Objects (crate::object::Object as mod.rs constructs and matches it).

Integer(value) == [type |-> "Integer", value |-> value]
Complex(re, im) == [type |-> "Complex", re |-> re, im |-> im]
Boolean(value) == [type |-> "Boolean", value |-> value]
ObjTRUE == Boolean(TRUE)
ObjFALSE == Boolean(FALSE)
ReturnValue(value) == [type |-> "ReturnValue", value |-> value]
Function(parameter, body, env) ==
    [type |-> "Function", parameter |-> parameter, body |-> body, env |-> env]

\* Object::to_complex: Some(Complex) for the two numeric kinds, None otherwise.
to_complex(obj) ==
    CASE obj.type = "Integer" -> [some |-> TRUE, value |-> Complex(obj.value, 0)]
      [] obj.type = "Complex" -> [some |-> TRUE, value |-> obj]
      [] OTHER -> [some |-> FALSE]

\* Object::is_same_type: both values are of the same variant.
is_same_type(left, right) == left.type = right.type

\* PartialEq of Object: structural equality.
ObjectEq(left, right) == left = right

-----------------------------------------------------------------------------
\* The AST (parser/ast.rs) and the tokens eval matches on.

LetStmt(name, value) == [kind |-> "LetStmt", name |-> name, value |-> value]
ReturnStmt(value) == [kind |-> "ReturnStmt", value |-> value]
ExpressionStmt(expression) == [kind |-> "ExpressionStmt", expression |-> expression]

Ident(value) == [kind |-> "Ident", value |-> value]
ExprInteger(value) == [kind |-> "Integer", value |-> value]
ExprComplex(re, im) == [kind |-> "Complex", re |-> re, im |-> im]
ExprBoolean(value) == [kind |-> "Boolean", value |-> value]
Prefix(operator, right) == [kind |-> "Prefix", operator |-> operator, right |-> right]
Infix(left, operator, right) ==
    [kind |-> "Infix", left |-> left, operator |-> operator, right |-> right]
IfExpr(condition, consequence, alternative) ==
    [kind |-> "IfExpr", condition |-> condition, consequence |-> consequence,
     alternative |-> alternative]
ExprFunction(parameter, body) ==
    [kind |-> "Function", parameter |-> parameter, body |-> body]
Call(function, arguments) ==
    [kind |-> "Call", function |-> function, arguments |-> arguments]

\* The operator tokens the evaluator distinguishes.
InfixTokens == {"PLUS", "MINUS", "ASTERISK", "SLASH", "POWER", "LT", "GT", "EQ", "NOTEQ"}

-----------------------------------------------------------------------------
\* Results: error::Result<Object>, plus the abort of the process (a panic or
\* the exhaustion of the call stack), which no caller observes.

Ok(value) == [kind |-> "Ok", value |-> value]
Err(error) == [kind |-> "Err", error |-> error]
Abort(why) == [kind |-> "Abort", why |-> why]

EvalIdentNotFound(name_got) == [error |-> "EvalIdentNotFound", name_got |-> name_got]
EvalNotFunction(got) == [error |-> "EvalNotFunction", got |-> got]
EvalUnknownPrefix(operator, right) ==
    [error |-> "EvalUnknownPrefix", operator |-> operator, right |-> right]
EvalUnknownInfix(left, operator, right) ==
    [error |-> "EvalUnknownInfix", left |-> left, operator |-> operator, right |-> right]
EvalTypeMismatch(left, operator, right) ==
    [error |-> "EvalTypeMismatch", left |-> left, operator |-> operator, right |-> right]

\* What an evaluation step hands back: its result and the state it leaves.
Ret(r, st) == [r |-> r, st |-> st]

-----------------------------------------------------------------------------
\* Environment: layers of bindings, each with an optional enclosing layer.
\* A layer is named by its index in the sequence of layers; 0 is "no layer".

NoEnv == 0
RootEnv == 1

\* Environment::new
EnvNew == [store |-> <<>>, outer |-> NoEnv]

\* Environment::new_enclosed: a fresh layer whose enclosing layer is `outer`.
new_enclosed(heap, outer) ==
    [heap |-> Append(heap, [store |-> <<>>, outer |-> outer]), env |-> Len(heap) + 1]

\* Environment::set: insert or overwrite in the layer `env` only.
EnvSet(heap, env, name, val) ==
    [heap EXCEPT ![env].store =
        [n \in (DOMAIN heap[env].store) \cup {name} |->
            IF n = name THEN val ELSE heap[env].store[n]]]

\* Environment::get: the layer `env` first, then each enclosing layer outward.
RECURSIVE EnvGet(_, _, _)
EnvGet(heap, env, name) ==
    IF env = NoEnv THEN [some |-> FALSE]
    ELSE IF name \in DOMAIN heap[env].store
         THEN [some |-> TRUE, value |-> heap[env].store[name]]
         ELSE EnvGet(heap, heap[env].outer, name)

\* Environment::clone as the Function expression uses it: the closure holds
\* the layer itself, not a copy of its bindings.
EnvClone(heap, env) == env

-----------------------------------------------------------------------------
\* The evaluator's pure functions.

\* A variant that also takes the integer zero for false.
is_truthy_zero_false(obj) == ~(obj = NULL \/ obj = ObjFALSE \/ obj = Integer(0))

\* is_truthy: everything but NULL and FALSE.
is_truthy(obj) == ~(obj = NULL \/ obj = ObjFALSE)

eval_bang_operator_expr(right) ==
    CASE right = ObjTRUE -> Ok(ObjFALSE)
      [] right = ObjFALSE -> Ok(ObjTRUE)
      [] right = NULL -> Ok(ObjTRUE)
      [] OTHER -> Ok(ObjFALSE)

\* i64: the integers of IntBits bits in two's complement.
MinInt == -(2^(IntBits - 1))
MaxInt == 2^(IntBits - 1) - 1
InRange(x) == MinInt <= x /\ x <= MaxInt

\* The i64 an exact result wraps to.
Wrap(x) == ((x - MinInt) % (2^IntBits)) + MinInt

\* An Object computed by i64 arithmetic with the exact intermediate results
\* xs: when one of them is out of range the operation panics in a build with
\* overflow checks and wraps in a build without.
Arithmetic(xs, exact, wrapped) ==
    IF \A i \in DOMAIN xs : InRange(xs[i]) THEN Ok(exact)
    ELSE IF overflow_checks THEN Abort("arithmetic overflow")
    ELSE Ok(wrapped)

eval_minus_operator_expr(right) ==
    CASE right.type = "Integer" ->
            Arithmetic(<<-right.value>>, Integer(-right.value), Integer(Wrap(-right.value)))
      [] right.type = "Complex" ->
            Arithmetic(<<-right.re, -right.im>>, Complex(-right.re, -right.im),
                       Complex(Wrap(-right.re), Wrap(-right.im)))
      [] OTHER -> Err(EvalUnknownPrefix("MINUS", right))

eval_prefix_expr(operator, right) ==
    CASE operator = "BANG" -> eval_bang_operator_expr(right)
      [] operator = "MINUS" -> eval_minus_operator_expr(right)
      [] OTHER -> Err(EvalUnknownPrefix(operator, right))

\* i64 `/`: the quotient truncated toward zero (rt # 0).
TruncDiv(lf, rt) ==
    LET Abs(x) == IF x < 0 THEN -x ELSE x
        q == Abs(lf) \div Abs(rt)
    IN  IF (lf < 0) = (rt < 0) THEN q ELSE -q

\* The power of the integers, exact.
RECURSIVE Pow(_, _)
Pow(base, exp) == IF exp = 0 THEN 1 ELSE base * Pow(base, exp - 1)

\* `rt as u32` of a non-negative i64: the low ExpBits bits.
as_u32(rt) == rt % (2^ExpBits)

\* i64::pow(base, exp): the power modulo 2^IntBits, and whether the exact
\* power is out of range.
RECURSIVE i64_pow(_, _)
i64_pow(base, exp) ==
    IF exp = 0 THEN [value |-> 1, overflow |-> FALSE]
    ELSE LET p == i64_pow(base, exp - 1)
             x == p.value * base
         IN  [value |-> Wrap(x), overflow |-> p.overflow \/ ~InRange(x)]

eval_integer_infix_expr(operator, lf, rt) ==
    CASE operator = "PLUS" ->
            Arithmetic(<<lf + rt>>, Integer(lf + rt), Integer(Wrap(lf + rt)))
      [] operator = "MINUS" ->
            Arithmetic(<<lf - rt>>, Integer(lf - rt), Integer(Wrap(lf - rt)))
      [] operator = "ASTERISK" ->
            Arithmetic(<<lf * rt>>, Integer(lf * rt), Integer(Wrap(lf * rt)))
      [] operator = "SLASH" ->
            IF rt = 0 THEN Abort("attempt to divide by zero")
            ELSE IF lf = MinInt /\ rt = -1 THEN Abort("attempt to divide with overflow")
            ELSE Ok(Integer(TruncDiv(lf, rt)))
      [] operator = "POWER" ->
            IF rt >= 0
            THEN LET p == i64_pow(lf, as_u32(rt))
                 IN  IF ~p.overflow THEN Ok(Integer(p.value))
                     ELSE IF overflow_checks THEN Abort("attempt to multiply with overflow")
                     ELSE Ok(Integer(p.value))
            ELSE Err(EvalPowErr)
      [] operator = "LT" -> Ok(Boolean(lf < rt))
      [] operator = "GT" -> Ok(Boolean(lf > rt))
      [] operator = "EQ" -> Ok(Boolean(lf = rt))
      [] operator = "NOTEQ" -> Ok(Boolean(lf # rt))
      [] OTHER -> Err(EvalUnknownInfix(Integer(lf), operator, Integer(rt)))

\* A variant that compares the real parts only.
eval_complex_infix_expr_real_only(operator, lf_re, lf_im, rt_re, rt_im) ==
    CASE operator = "PLUS" -> Ok(Complex(lf_re + rt_re, lf_im + rt_im))
      [] operator = "MINUS" -> Ok(Complex(lf_re - rt_re, lf_im - rt_im))
      [] operator = "ASTERISK" ->
            Ok(Complex(lf_re * rt_re - lf_im * rt_im, lf_re * rt_im + lf_im * rt_re))
      [] operator = "EQ" -> Ok(Boolean(lf_re = rt_re))
      [] operator = "NOTEQ" -> Ok(Boolean(lf_re # rt_re))
      [] OTHER ->
            Err(EvalUnknownInfix(Complex(lf_re, lf_im), operator, Complex(rt_re, rt_im)))

eval_complex_infix_expr(operator, lf_re, lf_im, rt_re, rt_im) ==
    CASE operator = "PLUS" ->
            Arithmetic(<<lf_re + rt_re, lf_im + rt_im>>,
                       Complex(lf_re + rt_re, lf_im + rt_im),
                       Complex(Wrap(lf_re + rt_re), Wrap(lf_im + rt_im)))
      [] operator = "MINUS" ->
            Arithmetic(<<lf_re - rt_re, lf_im - rt_im>>,
                       Complex(lf_re - rt_re, lf_im - rt_im),
                       Complex(Wrap(lf_re - rt_re), Wrap(lf_im - rt_im)))
      [] operator = "ASTERISK" ->
            LET re == lf_re * rt_re - lf_im * rt_im
                im == lf_re * rt_im + lf_im * rt_re
            IN  Arithmetic(<<lf_re * rt_re, lf_im * rt_im, re,
                             lf_re * rt_im, lf_im * rt_re, im>>,
                           Complex(re, im), Complex(Wrap(re), Wrap(im)))
      [] operator = "EQ" -> Ok(Boolean(lf_re = rt_re /\ lf_im = rt_im))
      [] operator = "NOTEQ" -> Ok(Boolean(lf_re # rt_re \/ lf_im # rt_im))
      [] OTHER ->
            Err(EvalUnknownInfix(Complex(lf_re, lf_im), operator, Complex(rt_re, rt_im)))

\* A variant that takes the integer arm when either imaginary part is zero.
eval_num_infix_expr_either_zero(operator, lf, rt) ==
    LET l == to_complex(lf).value
        r == to_complex(rt).value
    IN  IF l.im = 0 \/ r.im = 0
        THEN eval_integer_infix_expr(operator, l.re, r.re)
        ELSE eval_complex_infix_expr(operator, l.re, l.im, r.re, r.im)

eval_num_infix_expr(operator, lf, rt) ==
    LET l == to_complex(lf).value
        r == to_complex(rt).value
    IN  IF l.im = 0 /\ r.im = 0
        THEN eval_integer_infix_expr(operator, l.re, r.re)
        ELSE eval_complex_infix_expr(operator, l.re, l.im, r.re, r.im)

\* A variant that tests for the same kind before it tests for numbers.
eval_infix_expr_kind_first(operator, left, right) ==
    IF is_same_type(left, right)
    THEN CASE operator = "EQ" ->
                IF ObjectEq(left, right) THEN Ok(ObjTRUE) ELSE Ok(ObjFALSE)
           [] operator = "NOTEQ" ->
                IF ~ObjectEq(left, right) THEN Ok(ObjTRUE) ELSE Ok(ObjFALSE)
           [] OTHER -> Err(EvalUnknownInfix(left, operator, right))
    ELSE IF to_complex(left).some /\ to_complex(right).some
    THEN eval_num_infix_expr(operator, left, right)
    ELSE Err(EvalTypeMismatch(left, operator, right))

eval_infix_expr(operator, left, right) ==
    IF to_complex(left).some /\ to_complex(right).some
    THEN eval_num_infix_expr(operator, left, right)
    ELSE IF is_same_type(left, right)
    THEN CASE operator = "EQ" ->
                IF ObjectEq(left, right) THEN Ok(ObjTRUE) ELSE Ok(ObjFALSE)
           [] operator = "NOTEQ" ->
                IF ~ObjectEq(left, right) THEN Ok(ObjTRUE) ELSE Ok(ObjFALSE)
           [] OTHER -> Err(EvalUnknownInfix(left, operator, right))
    ELSE Err(EvalTypeMismatch(left, operator, right))

-----------------------------------------------------------------------------
\* The evaluator proper. Every function takes the state st = [heap, trace] it
\* runs in and hands back Ret(result, state left); depth is the number of
\* nested user-function calls still allowed.

eval_identifier(ident, env, st) ==
    LET value == EnvGet(st.heap, env, ident)
    IN  IF value.some THEN Ret(Ok(value.value), st)
        ELSE Ret(Err(EvalIdentNotFound(ident)), st)

\* extended_function_env: a layer enclosed by the function's environment,
\* with parameter i bound to args[i]; args.get(i).unwrap() panics when the
\* call has fewer arguments than the function has parameters.
RECURSIVE bind_parameters(_, _, _, _, _)
bind_parameters(parameter, args, heap, env, i) ==
    IF i > Len(parameter) THEN [ok |-> TRUE, heap |-> heap, env |-> env]
    ELSE IF i > Len(args) THEN [ok |-> FALSE, heap |-> heap, env |-> env]
    ELSE bind_parameters(parameter, args, EnvSet(heap, env, parameter[i], args[i]), env, i + 1)

\* A variant that encloses the root environment, not the function's.
extended_function_env_root(parameter, args, env, heap) ==
    LET fresh == new_enclosed(heap, RootEnv)
    IN  bind_parameters(parameter, args, fresh.heap, fresh.env, 1)

\* A variant that binds the parameters in the function's environment itself.
extended_function_env_no_layer(parameter, args, env, heap) ==
    bind_parameters(parameter, args, heap, env, 1)

extended_function_env(parameter, args, env, heap) ==
    LET fresh == new_enclosed(heap, env)
    IN  bind_parameters(parameter, args, fresh.heap, fresh.env, 1)

RECURSIVE eval(_, _, _, _)
RECURSIVE eval_stmts_from(_, _, _, _, _, _)
RECURSIVE eval_expressions_from(_, _, _, _, _, _)

\* A variant that unwraps the ReturnValue where the block ends.
eval_stmts_from_unwrapping(block, i, res, env, st, depth) ==
    IF i > Len(block) THEN Ret(Ok(res), st)
    ELSE LET ev == eval(block[i], env, st, depth)
         IN  IF ev.r.kind # "Ok" THEN ev
             ELSE IF ev.r.value.type = "ReturnValue" THEN Ret(Ok(ev.r.value.value), ev.st)
             ELSE eval_stmts_from(block, i + 1, ev.r.value, env, ev.st, depth)

\* eval_stmts: the block's statements in order, stopping at an error and at
\* the first ReturnValue, which is handed up still wrapped.
eval_stmts_from(block, i, res, env, st, depth) ==
    IF i > Len(block) THEN Ret(Ok(res), st)
    ELSE LET ev == eval(block[i], env, st, depth)
         IN  IF ev.r.kind # "Ok" THEN ev
             ELSE IF ev.r.value.type = "ReturnValue" THEN ev
             ELSE eval_stmts_from(block, i + 1, ev.r.value, env, ev.st, depth)

eval_stmts(block, env, st, depth) == eval_stmts_from(block, 1, NULL, env, st, depth)

\* eval_expressions: the values of exps, left to right, stopping at an error.
eval_expressions_from(exps, i, acc, env, st, depth) ==
    IF i > Len(exps) THEN Ret(Ok(acc), st)
    ELSE LET ev == eval(ExpressionStmt(exps[i]), env, st, depth)
         IN  IF ev.r.kind # "Ok" THEN ev
             ELSE eval_expressions_from(exps, i + 1, Append(acc, ev.r.value), env, ev.st, depth)

eval_expressions(exps, env, st, depth) ==
    eval_expressions_from(exps, 1, <<>>, env, st, depth)

apply_function(function, args, st, depth) ==
    IF function.type = "Function"
    THEN IF depth = 0 THEN Ret(Abort("stack exhausted"), st)
         ELSE LET ext == extended_function_env(function.parameter, args,
                                               function.env, st.heap)
              IN  IF ~ext.ok
                  THEN Ret(Abort("unwrap on None"), st)
                  ELSE LET evaluated == eval_stmts(function.body, ext.env,
                                            [st EXCEPT !.heap = ext.heap], depth - 1)
                       IN  IF evaluated.r.kind # "Ok" THEN evaluated
                           ELSE IF evaluated.r.value.type = "ReturnValue"
                           THEN Ret(Ok(evaluated.r.value.value), evaluated.st)
                           ELSE evaluated
    ELSE Ret(Err(EvalNotFunction(function)), st)

eval_if_expr(cond, consq, alter, env, st, depth) ==
    IF is_truthy(cond) THEN eval_stmts(consq, env, st, depth)
    ELSE IF alter # <<>> THEN eval_stmts(alter, env, st, depth)
    ELSE Ret(Ok(NULL), st)

\* A variant whose result is the value it stored.
eval_let_yields_value(node, env, st, depth) ==
    LET val == eval(ExpressionStmt(node.value), env, st, depth)
    IN  IF val.r.kind # "Ok" THEN val
        ELSE Ret(Ok(val.r.value),
                 [val.st EXCEPT !.heap = EnvSet(@, env, node.name, val.r.value)])

\* eval of `let name = value`.
eval_let(node, env, st, depth) ==
    LET val == eval(ExpressionStmt(node.value), env, st, depth)
    IN  IF val.r.kind # "Ok" THEN val
        ELSE Ret(Ok(DeclareVariable),
                 [val.st EXCEPT !.heap = EnvSet(@, env, node.name, val.r.value)])

\* eval of `return value`.
eval_return(node, env, st, depth) ==
    LET val == eval(ExpressionStmt(node.value), env, st, depth)
    IN  IF val.r.kind # "Ok" THEN val
        ELSE Ret(Ok(ReturnValue(val.r.value)), val.st)

\* eval of a prefix expression.
eval_prefix(e, env, st, depth) ==
    LET right == eval(ExpressionStmt(e.right), env, st, depth)
    IN  IF right.r.kind # "Ok" THEN right
        ELSE Ret(eval_prefix_expr(e.operator, right.r.value), right.st)

\* A variant that evaluates the right operand before the left one.
eval_infix_right_first(e, env, st, depth) ==
    LET right == eval(ExpressionStmt(e.right), env, st, depth)
    IN  IF right.r.kind # "Ok" THEN right
        ELSE LET left == eval(ExpressionStmt(e.left), env, right.st, depth)
             IN  IF left.r.kind # "Ok" THEN left
                 ELSE Ret(eval_infix_expr(e.operator, left.r.value, right.r.value),
                          left.st)

\* eval of an infix expression: left, then right, then the operator.
eval_infix(e, env, st, depth) ==
    LET left == eval(ExpressionStmt(e.left), env, st, depth)
    IN  IF left.r.kind # "Ok" THEN left
        ELSE LET right == eval(ExpressionStmt(e.right), env, left.st, depth)
             IN  IF right.r.kind # "Ok" THEN right
                 ELSE Ret(eval_infix_expr(e.operator, left.r.value, right.r.value),
                          right.st)

\* eval of an if expression: the condition, then the chosen block.
eval_if(e, env, st, depth) ==
    LET cond == eval(ExpressionStmt(e.condition), env, st, depth)
    IN  IF cond.r.kind # "Ok" THEN cond
        ELSE eval_if_expr(cond.r.value, e.consequence, e.alternative, env, cond.st, depth)

\* A variant that closes over a copy of the current layer's bindings.
eval_function_snapshot(e, env, st) ==
    Ret(Ok(Function(e.parameter, e.body, Len(st.heap) + 1)),
        [st EXCEPT !.heap = Append(@, @[env])])

\* eval of a function literal: the closure over the current environment.
eval_function(e, env, st) ==
    Ret(Ok(Function(e.parameter, e.body, EnvClone(st.heap, env))), st)

\* eval of a call: the callee, then the arguments, then the application.
eval_call(e, env, st, depth) ==
    LET function == eval(ExpressionStmt(e.function), env, st, depth)
    IN  IF function.r.kind # "Ok" THEN function
        ELSE LET args == eval_expressions(e.arguments, env, function.st, depth)
             IN  IF args.r.kind # "Ok" THEN args
                 ELSE apply_function(function.r.value, args.r.value, args.st, depth)

eval(node, env, st, depth) ==
    LET st1 == [st EXCEPT !.trace = Append(@, node)]
    IN  CASE node.kind = "LetStmt" -> eval_let(node, env, st1, depth)
          [] node.kind = "ReturnStmt" -> eval_return(node, env, st1, depth)
          [] node.kind = "ExpressionStmt" ->
                LET e == node.expression
                IN  CASE e.kind = "Integer" -> Ret(Ok(Integer(e.value)), st1)
                      [] e.kind = "Complex" -> Ret(Ok(Complex(e.re, e.im)), st1)
                      [] e.kind = "Ident" -> eval_identifier(e.value, env, st1)
                      [] e.kind = "Boolean" ->
                            IF e.value THEN Ret(Ok(ObjTRUE), st1) ELSE Ret(Ok(ObjFALSE), st1)
                      [] e.kind = "Prefix" -> eval_prefix(e, env, st1, depth)
                      [] e.kind = "Infix" -> eval_infix(e, env, st1, depth)
                      [] e.kind = "IfExpr" -> eval_if(e, env, st1, depth)
                      [] e.kind = "Function" -> eval_function(e, env, st1)
                      [] e.kind = "Call" -> eval_call(e, env, st1, depth)

-----------------------------------------------------------------------------
\* The programs eval_program is run on. They are written as the parser
\* would build them: a negative number is the prefix minus of a literal and
\* a complex literal has no real part.

Lit(n) == ExprInteger(n)
Neg(e) == Prefix("MINUS", e)
Stmt(e) == ExpressionStmt(e)
Let(name, e) == LetStmt(name, e)
Return(e) == ReturnStmt(e)
If(c, consq) == IfExpr(c, consq, <<>>)
ImagUnit == ExprComplex(0, 1)

\* Operand expressions, one or more for every kind of Object.
IntegerOperands == {Lit(0), Lit(2), Neg(Lit(1))}
ComplexOperands ==
    {ImagUnit, Neg(ImagUnit), Infix(Lit(1), "PLUS", ImagUnit),
     Infix(ImagUnit, "MINUS", ImagUnit),
     Infix(Infix(Lit(1), "PLUS", ImagUnit), "PLUS", Infix(Lit(1), "MINUS", ImagUnit))}
BooleanOperands == {ExprBoolean(TRUE), ExprBoolean(FALSE)}
NullOperand == If(ExprBoolean(FALSE), <<Stmt(Lit(1))>>)
FunctionOperands ==
    {ExprFunction(<<>>, <<Stmt(Lit(1))>>), ExprFunction(<<"x">>, <<Stmt(Ident("x"))>>)}
DeclareOperand == If(ExprBoolean(TRUE), <<Let("a", Lit(1))>>)
ReturnOperand == If(ExprBoolean(TRUE), <<Return(Lit(1))>>)
OperandExprs ==
    IntegerOperands \cup ComplexOperands \cup BooleanOperands \cup FunctionOperands
        \cup {NullOperand, DeclareOperand, ReturnOperand}

\* `left operator right`, for every operand pair and infix operator.
InfixPrograms ==
    {<<Stmt(Infix(l, op, r))>> : l \in OperandExprs, op \in InfixTokens, r \in OperandExprs}

\* `!x`, and `let t = !!x; if (x) { 10 } else { 20 }` with and without the
\* else block, for every operand x.
Consequence == <<Stmt(Lit(10))>>
Alternative == <<Stmt(Lit(20))>>
BangProgram(x) == <<Stmt(Prefix("BANG", x))>>
IfProgram(x, alter) ==
    <<Let("t", Prefix("BANG", Prefix("BANG", x))), Stmt(IfExpr(x, Consequence, alter))>>
BangPrograms == {BangProgram(x) : x \in OperandExprs}
IfPrograms == {IfProgram(x, alter) : x \in OperandExprs, alter \in {<<>>, Alternative}}

\* Blocks of let, return and expression statements under nested if
\* statements, as in the tests eval_return_expr and eval_nested_block_expr:
\* at nesting depth d an if statement over a block of depth d - 1, with and
\* without an else block, followed by one more statement.
LeafBlocks ==
    {<<Return(Lit(7))>>,
     <<Let("a", Lit(1))>>,
     <<Let("a", Lit(1)), Return(Lit(7))>>,
     <<Return(Lit(7)), Let("c", Lit(4))>>,
     <<Stmt(Lit(9)), Return(Infix(Lit(2), "ASTERISK", Lit(5))), Stmt(Lit(8))>>,
     <<Stmt(Lit(9))>>}

RECURSIVE ReturnBlocks(_)
ReturnBlocks(d) ==
    IF d = 0 THEN LeafBlocks
    ELSE {<<Stmt(IfExpr(ExprBoolean(c), inner, alter)), post>> :
            c \in BOOLEAN, inner \in ReturnBlocks(d - 1),
            alter \in {<<>>, <<Return(Lit(10 * d + 5))>>},
            post \in {Let("b", Lit(d)), Return(Lit(10 * d + 8))}}

ReturnPrograms == UNION {ReturnBlocks(d) : d \in 0..MaxNest}

\* A return statement inside an if block that is used as a value: of a let,
\* of a return, of a call argument, of a function's own return.
IdentityFn == ExprFunction(<<"x">>, <<Stmt(Ident("x"))>>)
EscapeLet == <<Let("a", ReturnOperand), Stmt(Lit(3))>>
EscapeReturn == <<Return(ReturnOperand)>>
EscapeArgument == <<Let("f", IdentityFn), Stmt(Call(Ident("f"), <<ReturnOperand>>))>>
EscapeCall ==
    <<Let("f", ExprFunction(<<>>, <<Return(ReturnOperand)>>)),
      Let("r", Call(Ident("f"), <<>>))>>
EscapePrograms == {EscapeLet, EscapeReturn, EscapeArgument, EscapeCall}

\* The integer values the function and let programs are run with.
Values == {3, 4, 5}

\* let a = v; let f = fn(a) { a }; f(w); a;
ShadowProgram(v, w) ==
    <<Let("a", Lit(v)),
      Let("f", ExprFunction(<<"a">>, <<Stmt(Ident("a"))>>)),
      Stmt(Call(Ident("f"), <<Lit(w)>>)),
      Stmt(Ident("a"))>>

\* let a = v; let f = fn() { a }; let g = fn(a) { f() }; g(w);
LexicalProgram(v, w) ==
    <<Let("a", Lit(v)),
      Let("f", ExprFunction(<<>>, <<Stmt(Ident("a"))>>)),
      Let("g", ExprFunction(<<"a">>, <<Stmt(Call(Ident("f"), <<>>))>>)),
      Stmt(Call(Ident("g"), <<Lit(w)>>))>>

\* let f = fn(x, y) { x - y }; f(v, w);
PositionalProgram(v, w) ==
    <<Let("f", ExprFunction(<<"x", "y">>, <<Stmt(Infix(Ident("x"), "MINUS", Ident("y")))>>)),
      Stmt(Call(Ident("f"), <<Lit(v), Lit(w)>>))>>

\* let a = v; let f = fn() { let a = w; a }; f(); a;
BodyLetProgram(v, w) ==
    <<Let("a", Lit(v)),
      Let("f", ExprFunction(<<>>, <<Let("a", Lit(w)), Stmt(Ident("a"))>>)),
      Stmt(Call(Ident("f"), <<>>)),
      Stmt(Ident("a"))>>

\* let f = fn(x) { if (x) { return v }; w }; f(c); 9;
ReturnInCallProgram(v, w, c) ==
    <<Let("f", ExprFunction(<<"x">>,
            <<Stmt(If(Ident("x"), <<Return(Lit(v))>>)), Stmt(Lit(w))>>)),
      Stmt(Call(Ident("f"), <<ExprBoolean(c)>>)),
      Stmt(Lit(9))>>

\* let adder = fn(x) { fn(y) { x + y } }; let add = adder(v); add(w);
AdderProgram(v, w) ==
    <<Let("adder", ExprFunction(<<"x">>,
            <<Stmt(ExprFunction(<<"y">>, <<Stmt(Infix(Ident("x"), "PLUS", Ident("y")))>>))>>)),
      Let("add", Call(Ident("adder"), <<Lit(v)>>)),
      Stmt(Call(Ident("add"), <<Lit(w)>>))>>

\* let f = fn() { a }; let a = v; f(); let a = w; f();
LaterProgram(v, w) ==
    <<Let("f", ExprFunction(<<>>, <<Stmt(Ident("a"))>>)),
      Let("a", Lit(v)),
      Stmt(Call(Ident("f"), <<>>)),
      Let("a", Lit(w)),
      Stmt(Call(Ident("f"), <<>>))>>

\* let f = fn(n) { if (n < 1) { 0 } else { n + f(n - 1) } }; f(k);
SumBody ==
    <<Stmt(IfExpr(Infix(Ident("n"), "LT", Lit(1)),
                  <<Stmt(Lit(0))>>,
                  <<Stmt(Infix(Ident("n"), "PLUS",
                        Call(Ident("f"), <<Infix(Ident("n"), "MINUS", Lit(1))>>)))>>))>>
RecursionProgram(k) ==
    <<Let("f", ExprFunction(<<"n">>, SumBody)), Stmt(Call(Ident("f"), <<Lit(k)>>))>>

\* fn() { let z = 1; nowhere }; and the same function called at once.
UnboundBody == <<Let("z", Lit(1)), Stmt(Ident("nowhere"))>>
DefinitionProgram == <<Stmt(ExprFunction(<<>>, UnboundBody)), Stmt(Lit(9))>>
DefinitionCalledProgram == <<Stmt(Call(ExprFunction(<<>>, UnboundBody), <<>>))>>

FunctionPrograms ==
    {ShadowProgram(v, w) : v \in Values, w \in Values}
        \cup {LexicalProgram(v, w) : v \in Values, w \in Values}
        \cup {PositionalProgram(v, w) : v \in Values, w \in Values}
        \cup {BodyLetProgram(v, w) : v \in Values, w \in Values}
        \cup {ReturnInCallProgram(v, w, c) : v \in Values, w \in Values, c \in BOOLEAN}
        \cup {AdderProgram(v, w) : v \in Values, w \in Values}
        \cup {LaterProgram(v, w) : v \in Values, w \in Values}
        \cup {RecursionProgram(k) : k \in 0..(MaxCallDepth - 1)}
        \cup {DefinitionProgram, DefinitionCalledProgram}

\* let a = e1; a; let a = e2; a; b;  where e2 may read the a bound before.
LetValues ==
    {Lit(3), ExprBoolean(TRUE), ImagUnit, IdentityFn, NullOperand,
     Infix(Ident("a"), "EQ", Ident("a"))}
LetProgram(e1, e2) ==
    <<Let("a", e1), Stmt(Ident("a")), Let("a", e2), Stmt(Ident("a")), Stmt(Ident("b"))>>

\* let a = v; let b = v; let f = fn(b) { fn(c) { a * 100 + b * 10 + c } };
\* let g = f(w); g(u);
Digits ==
    Infix(Infix(Infix(Ident("a"), "ASTERISK", Lit(100)), "PLUS",
                Infix(Ident("b"), "ASTERISK", Lit(10))), "PLUS", Ident("c"))
LayersProgram(v, w, u) ==
    <<Let("a", Lit(v)), Let("b", Lit(v)),
      Let("f", ExprFunction(<<"b">>, <<Stmt(ExprFunction(<<"c">>, <<Stmt(Digits)>>))>>)),
      Let("g", Call(Ident("f"), <<Lit(w)>>)),
      Stmt(Call(Ident("g"), <<Lit(u)>>)),
      Stmt(Ident("c"))>>

LetPrograms ==
    {LetProgram(e1, e2) : e1 \in LetValues \ {Infix(Ident("a"), "EQ", Ident("a"))},
                          e2 \in LetValues}
        \cup {LayersProgram(v, w, u) : v \in Values, w \in Values, u \in Values}

\* Programs with failing parts. Slot i of a shape holds an expression that
\* evaluates (the literal i), names an unbound identifier, or adds a Boolean
\* to an integer; the slots are numbered in source order.
Fills == {"ok", "ident", "mismatch"}

SlotNames == <<"e1", "e2", "e3", "e4">>

Slot(i, fill) ==
    CASE fill = "ok" -> Lit(i)
      [] fill = "ident" -> Ident(SlotNames[i])
      [] fill = "mismatch" -> Infix(Lit(i), "PLUS", ExprBoolean(TRUE))

\* The error a failing slot raises.
SlotError(i, fill) ==
    IF fill = "ident" THEN EvalIdentNotFound(SlotNames[i])
    ELSE EvalTypeMismatch(Integer(i), "PLUS", ObjTRUE)

Shapes == {"infix", "call", "let", "block", "body", "if", "return", "prefix"}

\* The number of slots of a shape.
SlotCount(shape) ==
    CASE shape \in {"infix", "block", "body", "if"} -> 3
      [] shape = "call" -> 4
      [] shape \in {"let", "return", "prefix"} -> 2

PairFn == ExprFunction(<<"x", "y">>, <<Stmt(Ident("x"))>>)

\* The expressions in the slots: the callee of a call that evaluates is a
\* function of two parameters.
SlotExprs(shape, fills) ==
    [i \in DOMAIN fills |->
        IF shape = "call" /\ i = 1 /\ fills[i] = "ok" THEN PairFn
        ELSE Slot(i, fills[i])]

ErrorProgram(shape, es) ==
    CASE shape = "infix" -> <<Stmt(Infix(es[1], "PLUS", es[2])), Stmt(es[3])>>
      [] shape = "call" -> <<Stmt(Call(es[1], <<es[2], es[3]>>)), Stmt(es[4])>>
      [] shape = "let" -> <<Let("a", es[1]), Stmt(es[2])>>
      [] shape = "block" ->
            <<Stmt(If(ExprBoolean(TRUE), <<Stmt(es[1]), Stmt(es[2])>>)), Stmt(es[3])>>
      [] shape = "body" ->
            <<Let("f", ExprFunction(<<>>, <<Stmt(es[1]), Stmt(es[2])>>)),
              Stmt(Call(Ident("f"), <<>>)), Stmt(es[3])>>
      [] shape = "if" -> <<Stmt(If(es[1], <<Stmt(es[2])>>)), Stmt(es[3])>>
      [] shape = "return" -> <<Return(Infix(es[1], "MINUS", es[2]))>>
      [] shape = "prefix" -> <<Stmt(Neg(es[1])), Stmt(es[2])>>

FillsOf(shape) == [1..SlotCount(shape) -> Fills]

ErrorPrograms ==
    UNION {{ErrorProgram(shape, SlotExprs(shape, fills)) : fills \in FillsOf(shape)} :
              shape \in Shapes}

\* let f = fn(<n parameters>) { <their sum> }; f(<m arguments>);
ParameterNames == <<"x", "y">>
ArgumentValues == <<10, 20, 30>>

SumOf(n) ==
    CASE n = 0 -> Lit(0)
      [] n = 1 -> Ident("x")
      [] n = 2 -> Infix(Ident("x"), "PLUS", Ident("y"))

ArityProgram(n, m) ==
    <<Let("f", ExprFunction(SubSeq(ParameterNames, 1, n), <<Stmt(SumOf(n))>>)),
      Stmt(Call(Ident("f"), [i \in 1..m |-> Lit(ArgumentValues[i])]))>>

ArityPrograms ==
    {ArityProgram(n, m) : n \in 0..Len(ParameterNames), m \in 0..Len(ArgumentValues)}

Programs ==
    InfixPrograms \cup BangPrograms \cup IfPrograms \cup ReturnPrograms
        \cup EscapePrograms \cup FunctionPrograms \cup LetPrograms
        \cup ErrorPrograms \cup ArityPrograms

-----------------------------------------------------------------------------
\* eval_program as a state machine: one step per iteration of its loop.

Init ==
    /\ stmts \in Programs
    /\ pc = 1
    /\ result = NULL
    /\ output = Pending
    /\ envs = <<EnvNew>>
    /\ trace = <<>>
    /\ tokens = <<>>
    /\ gc = <<>>
    /\ names = <<>>
    /\ applied = Pending
    /\ overflow_checks \in BOOLEAN

Running == output = Pending /\ pc <= Len(stmts)

\* eval(statement, env) of the loop's current statement.
Evaluated == eval(stmts[pc], RootEnv, [heap |-> envs, trace |-> trace], MaxCallDepth)

\* result = eval(statement, env)?; the result is no ReturnValue: next statement.
EvalStatement ==
    /\ Running
    /\ Evaluated.r.kind = "Ok"
    /\ Evaluated.r.value.type # "ReturnValue"
    /\ result' = Evaluated.r.value
    /\ pc' = pc + 1
    /\ envs' = Evaluated.st.heap
    /\ trace' = Evaluated.st.trace
    /\ UNCHANGED <<stmts, output, outside>>

\* if let Object::ReturnValue { value } = result { return Ok(*value); }
ReturnUnwrapped ==
    /\ Running
    /\ Evaluated.r.kind = "Ok"
    /\ Evaluated.r.value.type = "ReturnValue"
    /\ result' = Evaluated.r.value
    /\ output' = Ok(Evaluated.r.value.value)
    /\ envs' = Evaluated.st.heap
    /\ trace' = Evaluated.st.trace
    /\ UNCHANGED <<stmts, pc, outside>>

\* eval(statement, env)? with an Err: eval_program returns the error.
PropagateError ==
    /\ Running
    /\ Evaluated.r.kind = "Err"
    /\ output' = Evaluated.r
    /\ envs' = Evaluated.st.heap
    /\ trace' = Evaluated.st.trace
    /\ UNCHANGED <<stmts, pc, result, outside>>

\* A panic inside eval: the process aborts and eval_program never returns.
Panic ==
    /\ Running
    /\ Evaluated.r.kind = "Abort"
    /\ output' = Evaluated.r
    /\ envs' = Evaluated.st.heap
    /\ trace' = Evaluated.st.trace
    /\ UNCHANGED <<stmts, pc, result, outside>>

\* The loop is over: Ok(result).
ReturnResult ==
    /\ output = Pending
    /\ pc > Len(stmts)
    /\ output' = Ok(result)
    /\ UNCHANGED <<stmts, pc, result, envs, trace, outside>>

Next == EvalStatement \/ ReturnUnwrapped \/ PropagateError \/ Panic \/ ReturnResult

Spec == Init /\ [][Next]_vars

-----------------------------------------------------------------------------
\* What the claims are stated with.

Returned == output # Pending

\* The value an operand expression has in a fresh environment.
ValueOf(e) ==
    eval(Stmt(e), RootEnv, [heap |-> <<EnvNew>>, trace |-> <<>>], MaxCallDepth).r.value

Numeric(obj) == obj.type \in {"Integer", "Complex"}
RePart(obj) == IF obj.type = "Integer" THEN obj.value ELSE obj.re
ImPart(obj) == IF obj.type = "Integer" THEN 0 ELSE obj.im

\* The infix expression an infix program consists of, and its operand values.
InfixRun == stmts \in InfixPrograms /\ Returned
TheInfix == stmts[1].expression
LeftValue == ValueOf(TheInfix.left)
RightValue == ValueOf(TheInfix.right)

\* C6: infix evaluation classifies operands and operator into one outcome:
\* two numeric operands give what numeric-infix evaluation gives; two
\* operands of the same non-numeric kind give the Boolean of their structural
\* (in)equality under == and !=, and UnknownInfix under every other operator;
\* any other pair gives TypeMismatch under every operator. Both errors carry
\* the two operand values and the operator as they were passed.
C6_InfixDispatch ==
    InfixRun =>
        LET l == LeftValue
            r == RightValue
            op == TheInfix.operator
        IN  IF Numeric(l) /\ Numeric(r)
            THEN output = eval_num_infix_expr(op, l, r)
            ELSE IF l.type = r.type
            THEN CASE op = "EQ" -> output = Ok(Boolean(l = r))
                   [] op = "NOTEQ" -> output = Ok(Boolean(l # r))
                   [] OTHER -> output = Err(EvalUnknownInfix(l, op, r))
            ELSE output = Err(EvalTypeMismatch(l, op, r))

\* A Boolean compared with an Integer has failed with TypeMismatch.
C6_Witness ==
    /\ InfixRun
    /\ LeftValue.type = "Boolean" /\ RightValue.type = "Integer"
    /\ TheInfix.operator = "LT"
    /\ output.kind = "Err" /\ output.error.error = "EvalTypeMismatch"

\* C7: numeric infix evaluation picks its arithmetic by the imaginary parts.
\* Both zero: integer semantics, an Integer for + - * / ^ (where the quotient
\* or power is defined: a nonzero divisor, a non-negative exponent) and a
\* Boolean for < >. One nonzero: + - * by the component rules, the result
\* tagged Complex whatever its imaginary part, and / ^ < > fail UnknownInfix.
C7_NumericInfix ==
    (InfixRun /\ Numeric(LeftValue) /\ Numeric(RightValue)) =>
        LET a == RePart(LeftValue)
            b == ImPart(LeftValue)
            c == RePart(RightValue)
            d == ImPart(RightValue)
            op == TheInfix.operator
        IN  IF b = 0 /\ d = 0
            THEN CASE op = "PLUS" -> output = Ok(Integer(a + c))
                   [] op = "MINUS" -> output = Ok(Integer(a - c))
                   [] op = "ASTERISK" -> output = Ok(Integer(a * c))
                   [] op = "SLASH" /\ c # 0 ->
                        /\ output.kind = "Ok" /\ output.value.type = "Integer"
                        /\ LET rem == a - output.value.value * c
                           IN  /\ (IF rem < 0 THEN -rem ELSE rem) < (IF c < 0 THEN -c ELSE c)
                               /\ (rem = 0 \/ (rem < 0) = (a < 0))
                   [] op = "POWER" /\ c >= 0 ->
                        output.kind = "Ok" /\ output.value.type = "Integer"
                   [] op = "LT" -> output = Ok(Boolean(a < c))
                   [] op = "GT" -> output = Ok(Boolean(a > c))
                   [] OTHER -> TRUE
            ELSE CASE op = "PLUS" -> output = Ok(Complex(a + c, b + d))
                   [] op = "MINUS" -> output = Ok(Complex(a - c, b - d))
                   [] op = "ASTERISK" -> output = Ok(Complex(a * c - b * d, a * d + b * c))
                   [] op \in {"SLASH", "POWER", "LT", "GT"} ->
                        output.kind = "Err" /\ output.error.error = "EvalUnknownInfix"
                   [] OTHER -> TRUE

\* i * i has been evaluated: Complex(-1, 0), not Integer(-1).
C7_Witness ==
    /\ InfixRun
    /\ LeftValue = Complex(0, 1) /\ RightValue = Complex(0, 1)
    /\ TheInfix.operator = "ASTERISK"
    /\ output = Ok(Complex(-1, 0))

\* The result of the infix program with its operands exchanged.
Exchanged ==
    eval(Stmt(Infix(TheInfix.right, TheInfix.operator, TheInfix.left)), RootEnv,
         [heap |-> <<EnvNew>>, trace |-> <<>>], MaxCallDepth).r

\* C8: for two numeric operands in any mix of Integer and Complex, == is true
\* exactly when the real parts are equal and the imaginary parts are equal
\* (an Integer has imaginary part 0), != is its negation, and both give the
\* same answer with the operands exchanged.
C8_NumericEquality ==
    (InfixRun /\ Numeric(LeftValue) /\ Numeric(RightValue)
        /\ TheInfix.operator \in {"EQ", "NOTEQ"}) =>
        LET same == /\ RePart(LeftValue) = RePart(RightValue)
                    /\ ImPart(LeftValue) = ImPart(RightValue)
        IN  /\ TheInfix.operator = "EQ" => output = Ok(Boolean(same))
            /\ TheInfix.operator = "NOTEQ" => output = Ok(Boolean(~same))
            /\ output = Exchanged

\* Integer(2) == Complex(2, 0) has been evaluated to true.
C8_Witness ==
    /\ InfixRun
    /\ LeftValue = Integer(2) /\ RightValue = Complex(2, 0)
    /\ TheInfix.operator = "EQ"
    /\ output = Ok(ObjTRUE)

Range(seq) == {seq[i] : i \in DOMAIN seq}

\* C9 is stated with: the values that count as false, the operand of a bang
\* or if program, and whether eval was called on a block's statement.
Falsy(obj) == obj.type = "Null" \/ (obj.type = "Boolean" /\ obj.value = FALSE)
BangRun == stmts \in BangPrograms /\ Returned
IfRun == stmts \in IfPrograms /\ Returned
RanConsequence == Consequence[1] \in Range(trace)
RanAlternative == Alternative[1] \in Range(trace)

\* C9: `!` and `if` use one truthiness rule. !x is Boolean(true) exactly when
\* x is Null or Boolean(false) and Boolean(false) otherwise; !!x is
\* Boolean(true) exactly when `if (x)` runs its consequence block; an if
\* whose condition is not truthy runs the alternative block when there is
\* one and otherwise yields Null.
C9_Truthiness ==
    /\ BangRun =>
          output = Ok(Boolean(Falsy(ValueOf(stmts[1].expression.right))))
    /\ IfRun =>
          LET x == ValueOf(stmts[2].expression.condition)
              alter == stmts[2].expression.alternative
              t == envs[RootEnv].store["t"]
          IN  /\ t = Boolean(~Falsy(x))
              /\ (t = ObjTRUE) <=> RanConsequence
              /\ RanConsequence => (output = Ok(Integer(10)) /\ ~RanAlternative)
              /\ (~RanConsequence /\ alter # <<>>) =>
                    (RanAlternative /\ output = Ok(Integer(20)))
              /\ (~RanConsequence /\ alter = <<>>) => output = Ok(NULL)

\* `let t = !!0; if (0) { 10 } else { 20 }` has run: a number is truthy.
C9_Witness ==
    /\ IfRun
    /\ stmts[2].expression.condition = Lit(0)
    /\ stmts[2].expression.alternative # <<>>
    /\ envs[RootEnv].store["t"] = ObjTRUE
    /\ output = Ok(Integer(10))

\* C1 is stated with the statements a block runs when nothing stops it (an
\* if statement stands for the block its literal condition selects), the
\* place of the first return statement among them, and the bindings the let
\* statements before that place make.
RECURSIVE Path(_)
Path(block) ==
    IF Len(block) = 0 THEN <<>>
    ELSE LET s == Head(block)
         IN  (IF s.kind = "ExpressionStmt" /\ s.expression.kind = "IfExpr"
              THEN IF s.expression.condition.value
                   THEN Path(s.expression.consequence)
                   ELSE Path(s.expression.alternative)
              ELSE <<s>>) \o Path(Tail(block))

HasReturn(path) == \E i \in DOMAIN path : path[i].kind = "ReturnStmt"
FirstReturn(path) ==
    CHOOSE i \in DOMAIN path :
        /\ path[i].kind = "ReturnStmt"
        /\ \A j \in 1..(i - 1) : path[j].kind # "ReturnStmt"

RECURSIVE Bindings(_)
Bindings(path) ==
    IF Len(path) = 0 THEN <<>>
    ELSE LET front == Bindings(SubSeq(path, 1, Len(path) - 1))
             s == path[Len(path)]
         IN  IF s.kind = "LetStmt"
             THEN [n \in (DOMAIN front) \cup {s.name} |->
                       IF n = s.name THEN Integer(s.value.value) ELSE front[n]]
             ELSE front

IsPlainStatement(node) ==
    node.kind \in {"LetStmt", "ReturnStmt"} \/ node \in {Stmt(Lit(9)), Stmt(Lit(8))}

ReturnRun == stmts \in ReturnPrograms /\ Returned /\ HasReturn(Path(stmts))

\* C1: eval_program evaluates the statements in order and stops at the first
\* return statement it executes, at whatever depth of nested if statements
\* that statement sits: the program's result is the returned value
\* unwrapped, the statements evaluated are exactly those up to the return,
\* and the environment holds exactly the bindings made before it.
C1_StopsAtFirstReturn ==
    ReturnRun =>
        LET path == Path(stmts)
            k == FirstReturn(path)
            done == SubSeq(path, 1, k)
        IN  /\ output = Ok(ValueOf(path[k].value))
            /\ SelectSeq(trace, IsPlainStatement) = done
            /\ envs = <<[store |-> Bindings(done), outer |-> NoEnv]>>

\* A return two if statements deep has been executed, with a statement after
\* it in its own block, in the enclosing block and at top level.
C1_Witness ==
    /\ ReturnRun
    /\ stmts \in ReturnBlocks(MaxNest)
    /\ stmts[1].expression.condition.value
    /\ stmts[2].kind = "LetStmt"
    /\ LET outer == stmts[1].expression.consequence
       IN  /\ outer[1].expression.condition.value
           /\ outer[1].expression.consequence = <<Return(Lit(7)), Let("c", Lit(4))>>
           /\ outer[2].kind = "LetStmt"
    /\ output = Ok(Integer(7))
    /\ DOMAIN envs[RootEnv].store = {}

\* C2 (as claimed): no ReturnValue wraps a ReturnValue, no binding of any
\* environment layer (a let name or a function's parameter) holds a
\* ReturnValue, and eval_program's result is no ReturnValue.
C2_ReturnValueNeverEscapes ==
    /\ \A h \in DOMAIN envs : \A n \in DOMAIN envs[h].store :
            envs[h].store[n].type # "ReturnValue"
    /\ output.kind = "Ok" => output.value.type # "ReturnValue"
    /\ result.type = "ReturnValue" => result.value.type # "ReturnValue"

\* A store with one binding, and with two.
One(name, val) == [n \in {name} |-> val]
Two(n1, v1, n2, v2) == [n \in {n1, n2} |-> IF n = n1 THEN v1 ELSE v2]
Layer(store, outer) == [store |-> store, outer |-> outer]

\* C3: a call evaluates the function's body in a fresh layer enclosed by the
\* function's captured environment, parameter i bound to argument i: a
\* parameter shadows a captured binding of its name, a free variable of the
\* body is the definition site's even when the caller binds the name
\* differently, and the call yields the value of the last body statement or
\* of the first return executed, which ends the call only.
C3_FunctionCall ==
    \A v \in Values, w \in Values :
        /\ (stmts = ShadowProgram(v, w) /\ pc = 4) =>
              /\ result = Integer(w)
              /\ envs[2] = Layer(One("a", Integer(w)), RootEnv)
        /\ (stmts = LexicalProgram(v, w) /\ Returned) =>
              /\ output = Ok(Integer(v))
              /\ envs[2] = Layer(One("a", Integer(w)), RootEnv)
              /\ envs[3] = Layer(<<>>, RootEnv)
        /\ (stmts = PositionalProgram(v, w) /\ Returned) =>
              /\ output = Ok(Integer(v - w))
              /\ envs[2] = Layer(Two("x", Integer(v), "y", Integer(w)), RootEnv)
        /\ \A c \in BOOLEAN :
              /\ (stmts = ReturnInCallProgram(v, w, c) /\ pc = 3) =>
                    result = Integer(IF c THEN v ELSE w)
              /\ (stmts = ReturnInCallProgram(v, w, c) /\ Returned) =>
                    output = Ok(Integer(9))
        /\ (stmts = AdderProgram(v, w) /\ Returned) =>
              /\ output = Ok(Integer(v + w))
              /\ envs[2] = Layer(One("x", Integer(v)), RootEnv)
              /\ envs[3] = Layer(One("y", Integer(w)), 2)

\* g(4) has called f() with a bound to 4 by the caller and to 3 where f was
\* defined, and has yielded 3.
C3_Witness ==
    /\ stmts = LexicalProgram(3, 4)
    /\ output = Ok(Integer(3))
    /\ Len(envs) = 3

\* The statement about to run is a call with literal arguments, or the let
\* of one.
IsCall(e) ==
    /\ e.kind = "Call"
    /\ \A i \in DOMAIN e.arguments : e.arguments[i].kind \in {"Integer", "Boolean"}
CallNext == Running /\ stmts[pc].kind = "ExpressionStmt" /\ IsCall(stmts[pc].expression)
LetCallNext == Running /\ stmts[pc].kind = "LetStmt" /\ IsCall(stmts[pc].value)

\* C4: a let statement writes only into the current layer. A call leaves
\* every layer that existed before it as it was (the parameter bindings and
\* the body's let statements go into the call's own layer), a let of a
\* call's value changes that one name of the current layer, and a name
\* rebound inside a call has its old value outside once the call is over.
C4_LetWritesCurrentLayer ==
    /\ [][CallNext => \A h \in DOMAIN envs :
                          h \in DOMAIN envs' /\ envs'[h] = envs[h]]_vars
    /\ [][LetCallNext => \A h \in DOMAIN envs :
                          /\ h \in DOMAIN envs'
                          /\ envs'[h].outer = envs[h].outer
                          /\ \A n \in DOMAIN envs[h].store :
                                \/ h = RootEnv /\ n = stmts[pc].name
                                \/ /\ n \in DOMAIN envs'[h].store
                                   /\ envs'[h].store[n] = envs[h].store[n]]_vars
    /\ [](\A v \in Values, w \in Values :
            /\ (stmts = ShadowProgram(v, w) /\ Returned) => output = Ok(Integer(v))
            /\ (stmts = BodyLetProgram(v, w) /\ pc = 4) =>
                  /\ result = Integer(w)
                  /\ envs[RootEnv].store["a"] = Integer(v)
                  /\ envs[2] = Layer(One("a", Integer(w)), RootEnv)
            /\ (stmts = BodyLetProgram(v, w) /\ Returned) => output = Ok(Integer(v)))

\* f() has rebound a to 4 in its own layer and the program's a is still 3.
C4_Witness ==
    /\ stmts = BodyLetProgram(3, 4)
    /\ output = Ok(Integer(3))
    /\ Len(envs) = 2
    /\ envs[2].store["a"] = Integer(4)

ValueWith(e, a) ==
    eval(Stmt(e), RootEnv, [heap |-> <<Layer(One("a", a), NoEnv)>>, trace |-> <<>>],
         MaxCallDepth).r.value

\* C10: a let statement evaluates its value in the current environment,
\* binds the name in the current layer, overwriting an earlier binding of it
\* there, and yields DeclareVariable, not the stored value. A lookup gives
\* the value bound last, from the current layer first and then from each
\* enclosing layer outward, fails with IdentNotFound carrying the name when no
\* layer binds it, and changes no environment.
C10_LetAndLookup ==
    /\ \A e1 \in LetValues, e2 \in LetValues :
          stmts = LetProgram(e1, e2) =>
              LET v1 == ValueOf(e1)
                  v2 == ValueWith(e2, v1)
                  first == <<Layer(One("a", v1), NoEnv)>>
                  second == <<Layer(One("a", v2), NoEnv)>>
              IN  /\ pc = 2 => (result = DeclareVariable /\ envs = first)
                  /\ pc = 3 => (result = v1 /\ envs = first)
                  /\ pc = 4 => (result = DeclareVariable /\ envs = second)
                  /\ pc = 5 => (result = v2 /\ envs = second)
                  /\ Returned => output = Err(EvalIdentNotFound("b"))
    /\ \A v \in Values, w \in Values, u \in Values :
          stmts = LayersProgram(v, w, u) =>
              /\ pc = 6 =>
                    /\ result = Integer(100 * v + 10 * w + u)
                    /\ envs[2] = Layer(One("b", Integer(w)), RootEnv)
                    /\ envs[3] = Layer(One("c", Integer(u)), 2)
                    /\ envs[RootEnv].store["b"] = Integer(v)
                    /\ DOMAIN envs[RootEnv].store = {"a", "b", "f", "g"}
              /\ Returned => output = Err(EvalIdentNotFound("c"))

\* `let a = 3; a; let a = a == a; a; b;` has run: a was rebound to true, and
\* the unbound b has failed with IdentNotFound.
C10_Witness ==
    /\ stmts = LetProgram(Lit(3), Infix(Ident("a"), "EQ", Ident("a")))
    /\ pc = 5
    /\ result = ObjTRUE
    /\ envs[RootEnv].store["a"] = ObjTRUE
    /\ output = Err(EvalIdentNotFound("b"))

-----------------------------------------------------------------------------
\* The builtin functions (src/src/object/builtin.rs). An argument is a
\* GCBox<Object>: a handle of a cell of gc. Cloning a GCBox copies the handle,
\* GCBox::new allocates a cell, and an Array holds the handles of its elements.

String(chars) == [type |-> "String", chars |-> chars]
Array(elems) == [type |-> "Array", elems |-> elems]
BuiltIn(fnt) == [type |-> "BuiltIn", fnt |-> fnt]

EvalErr(msg) == [error |-> "EvalErr", msg |-> msg]

BuiltInFnt == {"NotBuiltIn", "Len", "First", "Last", "Rest", "Push"}

\* impl From<&str> for BuiltInFnt
BuiltInFnt_from(input) ==
    CASE input = "len" -> "Len"
      [] input = "first" -> "First"
      [] input = "last" -> "Last"
      [] input = "rest" -> "Rest"
      [] input = "push" -> "Push"
      [] OTHER -> "NotBuiltIn"

\* The bytes of the UTF-8 encoding of a code point.
Utf8Len(c) == IF c < 128 THEN 1 ELSE IF c < 2048 THEN 2 ELSE IF c < 65536 THEN 3 ELSE 4

\* str::len: the length in bytes.
RECURSIVE str_len(_)
str_len(chars) ==
    IF chars = <<>> THEN 0 ELSE Utf8Len(Head(chars)) + str_len(Tail(chars))

\* Object::type, the name of the variant, as the messages print it.
type_name(obj) == obj.type

\* GCBox::new(obj): a fresh cell.
GCBox_new(heap, obj) == [r |-> Ok(Len(heap) + 1), gc |-> Append(heap, obj)]

\* check_arg_len!(args, n): return an error unless exactly n arguments came.
check_arg_len(args, n) == Len(args) = n
ArgLenErr(fnt, args, n) ==
    EvalErr([fnt |-> fnt, expected |-> n, got |-> Len(args)])

\* The message of a builtin given an argument of an unsupported type.
ArgTypeErr(fnt, obj) == EvalErr([fnt |-> fnt, got |-> type_name(obj)])

call_len(args, heap) ==
    IF ~check_arg_len(args, 1) THEN [r |-> Err(ArgLenErr("len", args, 1)), gc |-> heap]
    ELSE LET arg == heap[args[1]]
         IN  CASE arg.type = "String" -> GCBox_new(heap, Integer(str_len(arg.chars)))
               [] arg.type = "Array" -> GCBox_new(heap, Integer(Len(arg.elems)))
               [] OTHER -> [r |-> Err(ArgTypeErr("len", arg)), gc |-> heap]

call_first(args, heap) ==
    IF ~check_arg_len(args, 1) THEN [r |-> Err(ArgLenErr("first", args, 1)), gc |-> heap]
    ELSE LET arg == heap[args[1]]
         IN  IF arg.type = "Array"
             THEN IF arg.elems # <<>>
                  THEN [r |-> Ok(arg.elems[1]), gc |-> heap]
                  ELSE GCBox_new(heap, NULL)
             ELSE [r |-> Err(ArgTypeErr("first", arg)), gc |-> heap]

call_last(args, heap) ==
    IF ~check_arg_len(args, 1) THEN [r |-> Err(ArgLenErr("last", args, 1)), gc |-> heap]
    ELSE LET arg == heap[args[1]]
         IN  IF arg.type = "Array"
             THEN IF arg.elems # <<>>
                  THEN [r |-> Ok(arg.elems[Len(arg.elems)]), gc |-> heap]
                  ELSE GCBox_new(heap, NULL)
             ELSE [r |-> Err(ArgTypeErr("last", arg)), gc |-> heap]

\* A variant that answers an empty Array with an empty Array.
call_rest_of_empty(args, heap) ==
    IF ~check_arg_len(args, 1) THEN [r |-> Err(ArgLenErr("rest", args, 1)), gc |-> heap]
    ELSE LET arg == heap[args[1]]
         IN  IF arg.type = "Array"
             THEN IF arg.elems # <<>>
                  THEN GCBox_new(heap, Array(Tail(arg.elems)))
                  ELSE GCBox_new(heap, Array(<<>>))
             ELSE [r |-> Err(ArgTypeErr("rest", arg)), gc |-> heap]

call_rest(args, heap) ==
    IF ~check_arg_len(args, 1) THEN [r |-> Err(ArgLenErr("rest", args, 1)), gc |-> heap]
    ELSE LET arg == heap[args[1]]
         IN  IF arg.type = "Array"
             THEN IF arg.elems # <<>>
                  THEN GCBox_new(heap, Array(Tail(arg.elems)))
                  ELSE GCBox_new(heap, NULL)
             ELSE [r |-> Err(ArgTypeErr("rest", arg)), gc |-> heap]

\* A variant that pushes onto the Array of the cell it was given.
call_push_in_place(args, heap) ==
    IF ~check_arg_len(args, 2) THEN [r |-> Err(ArgLenErr("push", args, 2)), gc |-> heap]
    ELSE LET arr == heap[args[1]]
         IN  IF arr.type = "Array"
             THEN [r |-> Ok(args[1]),
                   gc |-> [heap EXCEPT ![args[1]] = Array(Append(arr.elems, args[2]))]]
             ELSE [r |-> Err(ArgTypeErr("push", arr)), gc |-> heap]

\* Cloning the Object behind arr copies its vector of handles; the push is
\* on the copy, which goes into a fresh cell.
call_push(args, heap) ==
    IF ~check_arg_len(args, 2) THEN [r |-> Err(ArgLenErr("push", args, 2)), gc |-> heap]
    ELSE LET arr == heap[args[1]]
         IN  IF arr.type = "Array"
             THEN GCBox_new(heap, Array(Append(arr.elems, args[2])))
             ELSE [r |-> Err(ArgTypeErr("push", arr)), gc |-> heap]

\* BuiltInFnt::call
call(self, args, heap) ==
    CASE self = "Len" -> call_len(args, heap)
      [] self = "First" -> call_first(args, heap)
      [] self = "Last" -> call_last(args, heap)
      [] self = "Rest" -> call_rest(args, heap)
      [] self = "Push" -> call_push(args, heap)
      [] OTHER -> GCBox_new(heap, NULL)

-----------------------------------------------------------------------------
\* The builtins applied to cells: a caller holds two names, `arr` bound to
\* an Array and `obj` bound to any Object, calls a builtin on arguments drawn
\* from them, and may bind `arr` to the Array the call returned.

\* The most cells a run allocates on top of the first ones.
MaxAlloc == 2
\* The most arguments a call is given.
MaxArgs == 3

\* The cells at the start; the String is "a", e-acute, the euro sign.
FirstCells ==
    <<Integer(1), Integer(2), Array(<<>>), Array(<<2, 1>>),
      String(<<97, 233, 8364>>), NULL>>

ArrayCells == {h \in DOMAIN FirstCells : FirstCells[h].type = "Array"}

\* eval_program is not running.
NoProgram ==
    /\ stmts = <<>>
    /\ pc = 1
    /\ result = NULL
    /\ output = Pending
    /\ envs = <<EnvNew>>
    /\ trace = <<>>
    /\ tokens = <<>>

program == <<stmts, pc, result, output, envs, trace, tokens>>

InitBuiltin ==
    /\ NoProgram
    /\ gc = FirstCells
    /\ names \in [{"arr"} -> ArrayCells] \X [{"obj"} -> DOMAIN FirstCells]
    /\ applied = Pending
    /\ overflow_checks = TRUE

\* The cell a name is bound to.
Bound(n) == IF n = "arr" THEN names[1].arr ELSE names[2].obj

ArgLists ==
    UNION {[1..n -> {Bound("arr"), Bound("obj")}] : n \in 0..MaxArgs}

\* fnt.call(args)
CallBuiltIn ==
    /\ Len(gc) < Len(FirstCells) + MaxAlloc
    /\ \E fnt \in BuiltInFnt, args \in ArgLists :
          LET out == call(fnt, args, gc)
          IN  /\ applied' = [fnt |-> fnt, args |-> args, r |-> out.r]
              /\ gc' = out.gc
    /\ UNCHANGED <<names, overflow_checks, program>>

\* let arr = <the value returned>, when it is an Array.
LetArr ==
    /\ applied # Pending
    /\ applied.r.kind = "Ok"
    /\ gc[applied.r.value].type = "Array"
    /\ names' = <<[arr |-> applied.r.value], names[2]>>
    /\ UNCHANGED <<gc, applied, overflow_checks, program>>

NextBuiltin == CallBuiltIn \/ LetArr

BuiltinSpec == InitBuiltin /\ [][NextBuiltin]_vars

-----------------------------------------------------------------------------
\* Claims about the builtins.

Called(fnt) == applied # Pending /\ applied.fnt = fnt
Arg(i) == gc[applied.args[i]]

\* C11: push(arr, v) returns a new Array, arr with v appended as the last
\* element, and leaves every cell that existed unchanged: a name bound to the
\* Array passed in sees the same elements and length after the call, however
\* many pushes came before.
C11_PushLeavesArray ==
    [][(/\ names' = names
        /\ applied' # Pending
        /\ applied'.fnt = "Push"
        /\ applied'.r.kind = "Ok")
       => /\ \A h \in DOMAIN gc : gc'[h] = gc[h]
          /\ gc'[names'[1].arr] = gc[names[1].arr]
          /\ gc'[applied'.r.value] =
                Array(Append(gc[applied'.args[1]].elems, applied'.args[2]))]_vars

\* A push onto the Array that `arr` names, itself the result of a push.
C11_Witness ==
    /\ Called("Push")
    /\ applied.r.kind = "Ok"
    /\ applied.args[1] = names[1].arr
    /\ applied.args[1] > Len(FirstCells)
    /\ applied.r.value # names[1].arr
    /\ Len(gc[applied.r.value].elems) = Len(Arg(1).elems) + 1

\* The number of arguments a builtin takes.
Arity(fnt) == IF fnt = "Push" THEN 2 ELSE 1

\* C12: a builtin given a wrong number of arguments fails whatever they are;
\* given the right number, first and last return the first and last element
\* of an Array and Null for an empty one, rest returns a new Array of the
\* elements after the first and Null for an empty one, len returns the
\* element count of an Array and the byte count of a String, and an argument
\* of another type yields an EvalErr naming its type.
C12_Builtins ==
    (applied # Pending /\ applied.fnt # "NotBuiltIn") =>
        LET fnt == applied.fnt
            r == applied.r
            IsNull == r.kind = "Ok" /\ gc[r.value] = NULL
            TypeErr(obj) ==
                /\ r.kind = "Err"
                /\ r.error.error = "EvalErr"
                /\ r.error.msg.got = obj.type
        IN  IF Len(applied.args) # Arity(fnt)
            THEN r.kind = "Err" /\ r.error.error = "EvalErr"
            ELSE CASE Arg(1).type = "Array" ->
                        LET elems == Arg(1).elems
                        IN (CASE fnt = "First" ->
                                    IF elems = <<>> THEN IsNull ELSE r = Ok(elems[1])
                              [] fnt = "Last" ->
                                    IF elems = <<>> THEN IsNull
                                    ELSE r = Ok(elems[Len(elems)])
                              [] fnt = "Rest" ->
                                    IF elems = <<>> THEN IsNull
                                    ELSE /\ r.kind = "Ok"
                                         /\ r.value # applied.args[1]
                                         /\ gc[r.value] =
                                               Array([i \in 1..(Len(elems) - 1) |-> elems[i + 1]])
                              [] fnt = "Len" ->
                                    r.kind = "Ok" /\ gc[r.value] = Integer(Len(elems))
                              [] fnt = "Push" -> r.kind = "Ok")
                   [] Arg(1).type = "String" ->
                        IF fnt = "Len"
                        THEN /\ r.kind = "Ok"
                             /\ (Arg(1).chars = <<97, 233, 8364>> => gc[r.value] = Integer(6))
                        ELSE TypeErr(Arg(1))
                   [] OTHER -> TypeErr(Arg(1))

\* rest of an empty Array, which is Null.
C12_Witness ==
    /\ Called("Rest")
    /\ Len(applied.args) = 1
    /\ Arg(1) = Array(<<>>)
    /\ applied.r.kind = "Ok"
    /\ gc[applied.r.value] = NULL

-----------------------------------------------------------------------------
\* The parser. Precedence and take_precedence are src/src/parser/ast.rs; a
\* token is src/src/token.rs's Token, its variant in `kind`. The parser
\* itself is the precedence-climbing parser of the specification, section 4.1.

Tok(kind) == [kind |-> kind]
INT(value) == [kind |-> "INT", value |-> value]
IDENT(value) == [kind |-> "IDENT", value |-> value]

\* enum Precedence, ordered as declared (derive PartialOrd).
LOWEST == 1
EQUALS == 2
LESSGREATER == 3
SUM == 4
PRODUCT == 5
PREFIX == 6
CALL == 7

\* A variant that gives the asterisk the precedence of the plus.
take_precedence_flat(tok) ==
    CASE tok.kind \in {"EQ", "NOTEQ"} -> EQUALS
      [] tok.kind \in {"LT", "GT"} -> LESSGREATER
      [] tok.kind \in {"PLUS", "MINUS", "ASTERISK"} -> SUM
      [] tok.kind = "SLASH" -> PRODUCT
      [] tok.kind = "LPAREN" -> CALL
      [] OTHER -> LOWEST

take_precedence(tok) ==
    CASE tok.kind = "EQ" -> EQUALS
      [] tok.kind = "NOTEQ" -> EQUALS
      [] tok.kind = "LT" -> LESSGREATER
      [] tok.kind = "GT" -> LESSGREATER
      [] tok.kind = "PLUS" -> SUM
      [] tok.kind = "MINUS" -> SUM
      [] tok.kind = "ASTERISK" -> PRODUCT
      [] tok.kind = "SLASH" -> PRODUCT
      [] tok.kind = "LPAREN" -> CALL
      [] OTHER -> LOWEST

\* The token at position i: EOF past the end.
Peek(toks, i) == IF i <= Len(toks) THEN toks[i] ELSE Tok("EOF")

\* A parse that built node and stopped before position next; a parse error
\* at a token.
Parsed(node, next) == [ok |-> TRUE, node |-> node, next |-> next]
ParseError(why, at) == [ok |-> FALSE, why |-> why, at |-> at]

RECURSIVE parse_expression(_, _, _)
RECURSIVE parse_infix(_, _, _, _)
RECURSIVE parse_call_arguments(_, _, _)

\* The prefix rule of the lead token.
parse_prefix(toks, i) ==
    LET t == Peek(toks, i)
    IN  CASE t.kind = "INT" -> Parsed(ExprInteger(t.value), i + 1)
          [] t.kind = "IDENT" -> Parsed(Ident(t.value), i + 1)
          [] t.kind = "TRUE" -> Parsed(ExprBoolean(TRUE), i + 1)
          [] t.kind = "FALSE" -> Parsed(ExprBoolean(FALSE), i + 1)
          [] t.kind \in {"BANG", "MINUS"} ->
                LET right == parse_expression(toks, i + 1, PREFIX)
                IN  IF right.ok THEN Parsed(Prefix(t.kind, right.node), right.next)
                    ELSE right
          [] t.kind = "LPAREN" ->
                LET e == parse_expression(toks, i + 1, LOWEST)
                IN  IF ~e.ok THEN e
                    ELSE IF Peek(toks, e.next).kind = "RPAREN"
                    THEN Parsed(e.node, e.next + 1)
                    ELSE ParseError("expected RPAREN", e.next)
          [] OTHER -> ParseError("no prefix rule", i)

\* The arguments of a call, after its `(`: expressions between commas, up
\* to the `)`.
parse_call_arguments(toks, i, acc) ==
    IF acc = <<>> /\ Peek(toks, i).kind = "RPAREN" THEN Parsed(acc, i + 1)
    ELSE LET e == parse_expression(toks, i, LOWEST)
         IN  IF ~e.ok THEN e
             ELSE IF Peek(toks, e.next).kind = "COMMA"
             THEN parse_call_arguments(toks, e.next + 1, Append(acc, e.node))
             ELSE IF Peek(toks, e.next).kind = "RPAREN"
             THEN Parsed(Append(acc, e.node), e.next + 1)
             ELSE ParseError("expected RPAREN", e.next)

\* The infix rules, applied while the next token's precedence exceeds
\* min_precedence.
parse_infix(toks, left, next, min_precedence) ==
    LET t == Peek(toks, next)
    IN  IF take_precedence(t) > min_precedence
        THEN IF t.kind = "LPAREN"
             THEN LET args == parse_call_arguments(toks, next + 1, <<>>)
                  IN  IF ~args.ok THEN args
                      ELSE parse_infix(toks, Call(left, args.node), args.next,
                                       min_precedence)
             ELSE LET right == parse_expression(toks, next + 1, take_precedence(t))
                  IN  IF ~right.ok THEN right
                      ELSE parse_infix(toks, Infix(left, t.kind, right.node),
                                       right.next, min_precedence)
        ELSE Parsed(left, next)

parse_expression(toks, i, min_precedence) ==
    LET left == parse_prefix(toks, i)
    IN  IF ~left.ok THEN left
        ELSE parse_infix(toks, left.node, left.next, min_precedence)

\* The position after an optional `;`.
SkipSemicolon(toks, i) == IF Peek(toks, i).kind = "SEMICOLON" THEN i + 1 ELSE i

parse_statement(toks, i) ==
    LET t == Peek(toks, i)
    IN  CASE t.kind = "LET" ->
                IF Peek(toks, i + 1).kind # "IDENT"
                THEN ParseError("expected IDENT", i + 1)
                ELSE IF Peek(toks, i + 2).kind # "ASSIGN"
                THEN ParseError("expected ASSIGN", i + 2)
                ELSE LET e == parse_expression(toks, i + 3, LOWEST)
                     IN  IF ~e.ok THEN e
                         ELSE Parsed(LetStmt(toks[i + 1].value, e.node),
                                     SkipSemicolon(toks, e.next))
          [] t.kind = "RETURN" ->
                LET e == parse_expression(toks, i + 1, LOWEST)
                IN  IF ~e.ok THEN e
                    ELSE Parsed(ReturnStmt(e.node), SkipSemicolon(toks, e.next))
          [] OTHER ->
                LET e == parse_expression(toks, i, LOWEST)
                IN  IF ~e.ok THEN e
                    ELSE Parsed(ExpressionStmt(e.node), SkipSemicolon(toks, e.next))

\* parse_program: the statements of the whole token stream, or the first
\* parse error.
RECURSIVE parse_program_from(_, _, _)
parse_program_from(toks, i, acc) ==
    IF i > Len(toks) THEN Parsed(acc, i)
    ELSE LET st == parse_statement(toks, i)
         IN  IF ~st.ok THEN st
             ELSE parse_program_from(toks, st.next, Append(acc, st.node))

parse_program(toks) == parse_program_from(toks, 1, <<>>)

-----------------------------------------------------------------------------
\* The token streams the parser is run on.

\* The most infix operators in a generated chain of operands.
MaxOperators == 3

InfixOperators == {"PLUS", "MINUS", "ASTERISK", "SLASH", "LT", "GT", "EQ", "NOTEQ"}

\* The operands of a chain, in order.
Operands == <<7, 2, 3, 5, 4>>

\* 7 op1 2 op2 3 ..., one operator between two operands.
Chain(ops) ==
    [i \in 1..(2 * Len(ops) + 1) |->
        IF i % 2 = 1 THEN INT(Operands[(i + 1) \div 2]) ELSE Tok(ops[i \div 2])]

ChainInputs ==
    {Chain(ops) : ops \in UNION {[1..n -> InfixOperators] : n \in 1..MaxOperators}}

\* -7 op 2, !7 op 2, 7 op -2 and 7 op !2
PrefixInputs ==
    UNION {{<<Tok(pre), INT(7), Tok(op), INT(2)>>, <<INT(7), Tok(op), Tok(pre), INT(2)>>} :
              pre \in {"MINUS", "BANG"}, op \in InfixOperators}

\* Lines of test::eval_integers, each with the value the test expects.
TestInputs ==
    LET n(v) == INT(v)
        plus == Tok("PLUS")
        minus == Tok("MINUS")
        star == Tok("ASTERISK")
        slash == Tok("SLASH")
        lp == Tok("LPAREN")
        rp == Tok("RPAREN")
        semi == Tok("SEMICOLON")
        Line(toks, value) == [toks |-> toks \o <<semi>>, value |-> value]
    IN  { Line(<<n(5)>>, 5),
          Line(<<minus, n(10)>>, -10),
          Line(<<n(5), plus, n(5), plus, n(5), plus, n(5), minus, n(10)>>, 10),
          Line(<<n(2), star, n(2), star, n(2), star, n(2), star, n(2)>>, 32),
          Line(<<minus, n(50), plus, n(100), minus, n(50)>>, 0),
          Line(<<n(5), star, n(2), plus, n(10)>>, 20),
          Line(<<n(5), plus, n(2), star, n(10)>>, 25),
          Line(<<n(20), plus, n(2), star, minus, n(10)>>, 0),
          Line(<<n(50), slash, n(2), star, n(2), plus, n(10)>>, 60),
          Line(<<n(2), star, lp, n(5), plus, n(10), rp>>, 30),
          Line(<<n(3), star, n(3), star, n(3), plus, n(10)>>, 37),
          Line(<<n(3), star, lp, n(3), star, n(3), rp, plus, n(10)>>, 37),
          Line(<<lp, n(5), plus, n(10), star, n(2), plus, n(15), slash, n(3), rp,
                 star, n(2), plus, minus, n(10)>>, 50) }

\* Two statements with no `;` between them: the second starts with a token
\* that has no infix precedence.
Starts ==
    { <<INT(3)>>, <<IDENT("a")>>, <<Tok("TRUE")>>, <<Tok("BANG"), INT(3)>>,
      <<Tok("RETURN"), INT(3)>>, <<Tok("LET"), IDENT("b"), Tok("ASSIGN"), INT(3)>> }

SequenceInputs ==
    {Chain(<<op1>>) \o start \o <<Tok(op2), INT(4)>> :
        op1 \in InfixOperators, start \in Starts, op2 \in {"PLUS", "ASTERISK"}}

\* Calls among operators: f(1) op 2, 2 op f(1), -f(1), f(1)(2), f(1 op 2, 3)
CallOf(args) == <<IDENT("f"), Tok("LPAREN")>> \o args \o <<Tok("RPAREN")>>

CallInputs ==
    UNION {{CallOf(<<INT(1)>>) \o <<Tok(op), INT(2)>>,
            <<INT(2), Tok(op)>> \o CallOf(<<INT(1)>>),
            CallOf(<<INT(1), Tok(op), INT(2), Tok("COMMA"), INT(3)>>)} :
              op \in InfixOperators}
        \cup {<<Tok("MINUS")>> \o CallOf(<<INT(1)>>),
              CallOf(<<INT(1)>>) \o <<Tok("LPAREN"), INT(2), Tok("RPAREN")>>,
              CallOf(<<>>)}

\* Streams that are no program, a division by zero, and a return.
BadInputs ==
    { <<Tok("PLUS"), INT(1)>>, <<INT(1), Tok("PLUS")>>, <<Tok("LPAREN"), INT(1)>>,
      <<Tok("LET"), INT(1)>>, <<Tok("LET"), IDENT("a"), INT(1)>>,
      <<INT(1), Tok("RPAREN")>>, CallOf(<<INT(1), INT(2)>>) }

OtherInputs ==
    { <<INT(7), Tok("SLASH"), INT(0)>>,
      <<Tok("RETURN"), INT(1), Tok("PLUS"), INT(2), Tok("SEMICOLON"), INT(3)>>,
      <<Tok("LET"), IDENT("a"), Tok("ASSIGN"), INT(1), Tok("PLUS"), INT(2),
        Tok("SEMICOLON"), IDENT("a"), Tok("ASTERISK"), INT(2)>> }

TokenInputs ==
    ChainInputs \cup PrefixInputs \cup {t.toks : t \in TestInputs}
        \cup SequenceInputs \cup CallInputs \cup BadInputs \cup OtherInputs

-----------------------------------------------------------------------------
\* Parsing, then eval_program on what was parsed.

Unparsed == [kind |-> "Unparsed"]

InitParser ==
    /\ tokens \in TokenInputs
    /\ stmts = <<>>
    /\ pc = 1
    /\ result = NULL
    /\ output = Unparsed
    /\ envs = <<EnvNew>>
    /\ trace = <<>>
    /\ gc = <<>>
    /\ names = <<>>
    /\ applied = Pending
    /\ overflow_checks = TRUE

\* parse_program succeeded: its statements go to eval_program.
ParseProgram ==
    /\ output = Unparsed
    /\ parse_program(tokens).ok
    /\ stmts' = parse_program(tokens).node
    /\ output' = Pending
    /\ UNCHANGED <<pc, result, envs, trace, outside>>

\* parse_program failed: nothing is evaluated.
ParseFailed ==
    /\ output = Unparsed
    /\ ~parse_program(tokens).ok
    /\ output' = Err(parse_program(tokens))
    /\ UNCHANGED <<stmts, pc, result, envs, trace, outside>>

NextParser == ParseProgram \/ ParseFailed \/ Next

ParserSpec == InitParser /\ [][NextParser]_vars

-----------------------------------------------------------------------------
\* Claims about the parser.

\* The binding strength the table gives an infix operator.
Level(op) ==
    CASE op \in {"EQ", "NOTEQ"} -> 1
      [] op \in {"LT", "GT"} -> 2
      [] op \in {"PLUS", "MINUS"} -> 3
      [] op \in {"ASTERISK", "SLASH"} -> 4

\* The tokens of an expression of integers and infix operators, left to right.
RECURSIVE InOrder(_)
InOrder(e) ==
    IF e.kind = "Infix"
    THEN InOrder(e.left) \o <<Tok(e.operator)>> \o InOrder(e.right)
    ELSE <<INT(e.value)>>

\* Every operator's left operand binds at least as tightly as it, and its
\* right operand more tightly: the one tree in which a stronger operator
\* groups tighter and equal ones group to the left.
RECURSIVE Grouped(_)
Grouped(e) ==
    e.kind = "Infix" =>
        /\ e.left.kind = "Infix" => Level(e.left.operator) >= Level(e.operator)
        /\ e.right.kind = "Infix" => Level(e.right.operator) > Level(e.operator)
        /\ Grouped(e.left)
        /\ Grouped(e.right)

ParsedOk == output # Unparsed /\ parse_program(tokens).ok

\* The statement a start of SequenceInputs makes, with `op 4` after it.
Second(start, op) ==
    LET four == ExprInteger(4)
        three == ExprInteger(3)
    IN  CASE start = <<INT(3)>> -> Stmt(Infix(three, op, four))
          [] start = <<IDENT("a")>> -> Stmt(Infix(Ident("a"), op, four))
          [] start = <<Tok("TRUE")>> -> Stmt(Infix(ExprBoolean(TRUE), op, four))
          [] start = <<Tok("BANG"), INT(3)>> -> Stmt(Infix(Prefix("BANG", three), op, four))
          [] start = <<Tok("RETURN"), INT(3)>> -> ReturnStmt(Infix(three, op, four))
          [] OTHER -> LetStmt("b", Infix(three, op, four))

\* C13: the parser binds infix operators by the precedence table and goes on
\* with an expression only while the next token's precedence is strictly
\* higher: a chain of operators parses to the one tree in which a stronger
\* operator groups tighter and equal ones group to the left, a prefix
\* operator and a call bind tighter than every infix operator, the lines of
\* the integer test evaluate to the expected values, and an expression
\* statement ends at a token without infix precedence even with no `;`.
C13_Precedence ==
    /\ tokens \in ChainInputs \cup PrefixInputs \cup SequenceInputs \cup CallInputs
          => parse_program(tokens).ok
    /\ ParsedOk =>
        /\ tokens \in ChainInputs =>
              /\ Len(stmts) = 1
              /\ stmts[1].kind = "ExpressionStmt"
              /\ InOrder(stmts[1].expression) = tokens
              /\ Grouped(stmts[1].expression)
        /\ \A pre \in {"MINUS", "BANG"}, op \in InfixOperators :
              /\ tokens = <<Tok(pre), INT(7), Tok(op), INT(2)>> =>
                    stmts = <<Stmt(Infix(Prefix(pre, ExprInteger(7)), op, ExprInteger(2)))>>
              /\ tokens = <<INT(7), Tok(op), Tok(pre), INT(2)>> =>
                    stmts = <<Stmt(Infix(ExprInteger(7), op, Prefix(pre, ExprInteger(2))))>>
        /\ \A t \in TestInputs :
              tokens = t.toks =>
                  /\ Len(stmts) = 1
                  /\ output \in {Pending, Ok(Integer(t.value))}
        /\ \A op1 \in InfixOperators, start \in Starts, op2 \in {"PLUS", "ASTERISK"} :
              tokens = Chain(<<op1>>) \o start \o <<Tok(op2), INT(4)>> =>
                  stmts = <<Stmt(Infix(ExprInteger(7), op1, ExprInteger(2))),
                            Second(start, op2)>>
        /\ \A op \in InfixOperators :
              LET f1 == Call(Ident("f"), <<ExprInteger(1)>>)
              IN  /\ tokens = CallOf(<<INT(1)>>) \o <<Tok(op), INT(2)>> =>
                        stmts = <<Stmt(Infix(f1, op, ExprInteger(2)))>>
                  /\ tokens = <<INT(2), Tok(op)>> \o CallOf(<<INT(1)>>) =>
                        stmts = <<Stmt(Infix(ExprInteger(2), op, f1))>>
                  /\ tokens = CallOf(<<INT(1), Tok(op), INT(2), Tok("COMMA"), INT(3)>>) =>
                        stmts = <<Stmt(Call(Ident("f"),
                                    <<Infix(ExprInteger(1), op, ExprInteger(2)),
                                      ExprInteger(3)>>))>>
        /\ tokens = <<Tok("MINUS")>> \o CallOf(<<INT(1)>>) =>
              stmts = <<Stmt(Prefix("MINUS", Call(Ident("f"), <<ExprInteger(1)>>)))>>

\* 5 + 2 * 10; parsed as 5 + (2 * 10) and evaluated to 25.
C13_Witness ==
    /\ tokens = <<INT(5), Tok("PLUS"), INT(2), Tok("ASTERISK"), INT(10), Tok("SEMICOLON")>>
    /\ stmts = <<Stmt(Infix(ExprInteger(5), "PLUS",
                          Infix(ExprInteger(2), "ASTERISK", ExprInteger(10))))>>
    /\ output = Ok(Integer(25))

-----------------------------------------------------------------------------
\* Calls of every kind of callee. eval_program's caller passes the
\* environment: a fresh one, or one that binds the names of the builtins to
\* their tags.

BuiltInNames == {"len", "first", "last", "rest", "push"}

BuiltInEnv == [store |-> [n \in BuiltInNames |-> BuiltIn(BuiltInFnt_from(n))],
               outer |-> NoEnv]

Callees == OperandExprs \cup {Ident(n) : n \in BuiltInNames}

ArgumentLists == {<<>>, <<Lit(2)>>, <<Lit(2), Lit(3)>>}

\* callee(arguments); and return callee(arguments);
CallPrograms ==
    UNION {{<<Stmt(Call(f, args))>>, <<Return(Call(f, args))>>} :
              f \in Callees, args \in ArgumentLists}

InitCall ==
    /\ stmts \in CallPrograms
    /\ pc = 1
    /\ result = NULL
    /\ output = Pending
    /\ envs \in {<<EnvNew>>, <<BuiltInEnv>>}
    /\ trace = <<>>
    /\ tokens = <<>>
    /\ gc = <<>>
    /\ names = <<>>
    /\ applied = Pending
    /\ overflow_checks = TRUE

CallSpec == InitCall /\ [][Next]_vars

\* The call a call program consists of, and what its callee and arguments
\* evaluate to.
TheCall == IF stmts[1].kind = "ReturnStmt" THEN stmts[1].value ELSE stmts[1].expression
InRoot(e) == eval(Stmt(e), RootEnv, [heap |-> <<envs[RootEnv]>>, trace |-> <<>>], MaxCallDepth).r
ArgValues == [i \in DOMAIN TheCall.arguments |-> InRoot(TheCall.arguments[i]).value]

\* What the builtin registry answers when called with these values.
Dispatched(fnt, args) ==
    LET out == call(fnt, [i \in DOMAIN args |-> i], args)
    IN  IF out.r.kind = "Ok" THEN Ok(out.gc[out.r.value]) ELSE out.r

\* C14: a call dispatches on the value of its callee: a Function is applied
\* to the arguments, a builtin tag is dispatched to the builtin registry with
\* the evaluated arguments, and any other value fails with NotFunction
\* carrying that value.
C14_CallDispatch ==
    (Returned /\ InRoot(TheCall.function).kind = "Ok") =>
        LET function == InRoot(TheCall.function).value
        IN  CASE function.type = "Function" ->
                    Len(ArgValues) >= Len(function.parameter) =>
                        output = Ok(IF function.parameter = <<>> THEN Integer(1)
                                    ELSE ArgValues[1])
              [] function.type = "BuiltIn" ->
                    output = Dispatched(function.fnt, ArgValues)
              [] OTHER -> output = Err(EvalNotFunction(function))

-----------------------------------------------------------------------------
\* Claims about errors.

\* The slots that fail, and the first of them in source order.
Failing(fills) == {i \in DOMAIN fills : fills[i] # "ok"}
FirstFailing(fills) == CHOOSE i \in Failing(fills) : \A j \in Failing(fills) : i <= j

\* The position in trace of eval's first call on an expression; 0 when
\* eval was never called on it.
FirstEval(e) ==
    IF \E n \in DOMAIN trace : trace[n] = Stmt(e)
    THEN CHOOSE n \in DOMAIN trace :
            trace[n] = Stmt(e) /\ \A m \in 1..(n - 1) : trace[m] # Stmt(e)
    ELSE 0

\* C15: the first evaluation error aborts everything after it and is
\* returned unchanged: the parts of a program are evaluated in source order
\* (left operand before right, callee before arguments, arguments left to
\* right, statements in order), no part after the first failing one is
\* evaluated, a let whose value fails binds nothing, and eval_program returns
\* exactly the error raised first.
C15_FirstErrorAborts ==
    \A shape \in Shapes : \A fills \in FillsOf(shape) :
        LET es == SlotExprs(shape, fills)
        IN  (/\ stmts = ErrorProgram(shape, es)
             /\ Failing(fills) # {}
             /\ Returned) =>
                LET k == FirstFailing(fills)
                IN  /\ output = Err(SlotError(k, fills[k]))
                    /\ \A i \in 1..k : FirstEval(es[i]) > 0
                    /\ \A i \in 1..(k - 1) : FirstEval(es[i]) < FirstEval(es[i + 1])
                    /\ \A i \in (k + 1)..Len(es) : FirstEval(es[i]) = 0
                    /\ (shape = "let" /\ k = 1) => "a" \notin DOMAIN envs[RootEnv].store
                    /\ pc <= Len(stmts)

\* A call whose callee and first argument evaluate and whose second argument
\* fails, with a failing statement after it.
C15_Witness ==
    /\ stmts = ErrorProgram("call", SlotExprs("call", <<"ok", "ok", "mismatch", "ident">>))
    /\ output = Err(EvalTypeMismatch(Integer(3), "PLUS", ObjTRUE))
    /\ FirstEval(Lit(2)) > 0
    /\ FirstEval(Ident("e4")) = 0

-----------------------------------------------------------------------------
\* The integer and complex infix functions applied to operands at and
\* around the limits of i64 and u32.

\* An operator that no infix function knows.
OtherToken == "BANG"

IntegerBoundary ==
    {MinInt, MinInt + 1, -2, -1, 0, 1, 2, 3,
     2^ExpBits - 1, 2^ExpBits, 2^ExpBits + 1, MaxInt - 1, MaxInt}

ComplexBoundary == {MinInt, -1, 0, 2, MaxInt}

IntegerInputs ==
    {<<op, lf, rt>> : op \in InfixTokens \cup {OtherToken},
                      lf \in IntegerBoundary, rt \in IntegerBoundary}

ComplexInputs ==
    {<<op, lf_re, lf_im, rt_re, rt_im>> :
        op \in InfixTokens \cup {OtherToken},
        lf_re \in ComplexBoundary, lf_im \in ComplexBoundary,
        rt_re \in ComplexBoundary, rt_im \in ComplexBoundary}

InitArith ==
    /\ NoProgram
    /\ gc = <<>>
    /\ names = <<>>
    /\ overflow_checks \in BOOLEAN
    /\ \/ \E args \in IntegerInputs :
             applied = [fnt |-> "eval_integer_infix_expr", args |-> args, r |-> Pending]
       \/ \E args \in ComplexInputs :
             applied = [fnt |-> "eval_complex_infix_expr", args |-> args, r |-> Pending]

\* eval_integer_infix_expr(operator, lf, rt)
IntegerInfix ==
    /\ applied.fnt = "eval_integer_infix_expr"
    /\ applied.r = Pending
    /\ applied' = [applied EXCEPT !.r =
          eval_integer_infix_expr(applied.args[1], applied.args[2], applied.args[3])]
    /\ UNCHANGED <<gc, names, overflow_checks, program>>

\* eval_complex_infix_expr(operator, lf_re, lf_im, rt_re, rt_im)
ComplexInfix ==
    /\ applied.fnt = "eval_complex_infix_expr"
    /\ applied.r = Pending
    /\ applied' = [applied EXCEPT !.r =
          eval_complex_infix_expr(applied.args[1], applied.args[2], applied.args[3],
                                  applied.args[4], applied.args[5])]
    /\ UNCHANGED <<gc, names, overflow_checks, program>>

NextArith == IntegerInfix \/ ComplexInfix

ArithSpec == InitArith /\ [][NextArith]_vars

-----------------------------------------------------------------------------
\* Claims about integer arithmetic.

IntegerApplied == applied.fnt = "eval_integer_infix_expr" /\ applied.r # Pending

\* What stands for a power outside the range of i64.
OutOfRange == MaxInt + 1

\* The exact power lf^rt, or OutOfRange.
ExactPower(lf, rt) ==
    CASE lf = 0 -> IF rt = 0 THEN 1 ELSE 0
      [] lf = 1 -> 1
      [] lf = -1 -> IF rt % 2 = 0 THEN 1 ELSE -1
      [] OTHER -> IF rt < IntBits /\ ~i64_pow(lf, rt).overflow THEN Pow(lf, rt)
                  ELSE OutOfRange

\* C16: integer power: lf ^ rt with a non-negative exponent rt yields
\* Integer(lf raised to the rt-th power), lf ^ 0 being 1 (stated here for the
\* powers that an i64 can hold), and a negative exponent fails with PowErr.
C16_IntegerPower ==
    (IntegerApplied /\ applied.args[1] = "POWER") =>
        LET lf == applied.args[2]
            rt == applied.args[3]
        IN  /\ rt < 0 => applied.r = Err(EvalPowErr)
            /\ rt = 0 => applied.r = Ok(Integer(1))
            /\ (rt >= 0 /\ InRange(ExactPower(lf, rt))) =>
                  applied.r = Ok(Integer(ExactPower(lf, rt)))

\* C18: the integer and complex infix functions are total: whatever the
\* operands and the operator, they return an Object or an EvalError and
\* never abort the interpreter.
C18_InfixTotal ==
    (applied # Pending /\ applied.r # Pending) => applied.r.kind \in {"Ok", "Err"}

-----------------------------------------------------------------------------
\* Claims about the number of arguments.

\* C17: applying a user function is total in the argument count: with
\* fewer, as many or more arguments than parameters the call completes with
\* a value or an error and never aborts the interpreter, and with more
\* arguments than parameters the surplus ones are ignored.
C17_CallTotalInArity ==
    \A n \in 0..Len(ParameterNames), m \in 0..Len(ArgumentValues) :
        (stmts = ArityProgram(n, m) /\ Returned) =>
            /\ output.kind \in {"Ok", "Err"}
            /\ m >= n => output = Ok(Integer(CASE n = 0 -> 0
                                               [] n = 1 -> ArgumentValues[1]
                                               [] n = 2 -> ArgumentValues[1] + ArgumentValues[2]))


====
